---- MODULE Spec2Model ----
(***************************************************************************)
(* The temporal future-prediction engine of future_prediction.py:          *)
(* ConvBlock, SpatialGRU, Bottleneck and FuturePrediction.                 *)
(*                                                                         *)
(* A tensor is a record [shape, val]: its size, and a symbolic term that   *)
(* names the computation which produced its contents (a free algebra over  *)
(* the call's arguments, so two tensors are equal exactly when they were   *)
(* computed the same way from the same arguments).  A raised Python        *)
(* exception is the record Raise(kind); None is the record None.           *)
(***************************************************************************)
EXTENDS Integers, Sequences, FiniteSets, TLC

\* ------------------------------------------------------------- bounds
MaxB == 2
MaxT == 2
MaxC == 2
MaxH == 2
MaxK == 4
MaxBlocks == 2
MaxRes == 2
MaxTracked == 3

VARIABLES
    cb_args,        \* ConvBlock.__init__: the arguments of the last construction
    cb_self,        \* ... and the block it built, or the exception it raised
    bk_args,        \* Bottleneck.__init__: the arguments of the last construction
    bk_self,        \* ... and the block it built, or the exception it raised
    bk_x,           \* Bottleneck.forward: its argument x
    x_residual,     \* ... its local x_residual
    bk_ret,         \* ... what the call returned or raised
    spatial_grus,   \* the SpatialGRU modules (FuturePrediction.spatial_grus)
    gru_pc,         \* SpatialGRU.forward: "idle", "entry", "loop", "returned", "raised"
    gru_self,       \* ... the module it runs on (an index of spatial_grus)
    x,              \* ... its argument x
    state,          \* ... its argument state (the caller's tensor object)
    flow,           \* ... its argument flow
    rnn_state,      \* ... its local rnn_state
    rnn_output,     \* ... its local rnn_output
    t,              \* ... its loop variable
    gru_ret,        \* ... what the call returned or raised
    warp_calls,     \* ... how often the call has invoked warp_features
    log,            \* the GRU steps and Bottleneck blocks executed, in order
    fp_self,        \* the FuturePrediction module's configuration
    res_blocks,     \* FuturePrediction.res_blocks
    fp_pc,          \* FuturePrediction.forward: "idle", "stage", "in_gru", "res",
                    \*   "returned", "raised"
    fp_x,           \* ... its variable x
    hidden_state,   \* ... its argument hidden_state (the caller's tensor object)
    i,              \* ... its loop variable
    layer,          \* ... the next block of res_blocks[i] to apply
    fp_shape,       \* ... its locals b, n_future, c, h, w
    fp_ret,         \* ... what the call returned or raised
    fp_args         \* ... x and hidden_state as they were when the call started

cb_vars == <<cb_args, cb_self>>
bk_vars == <<bk_args, bk_self, bk_x, x_residual, bk_ret>>
gru_vars == <<spatial_grus, gru_pc, gru_self, x, state, flow, rnn_state, rnn_output, t,
              gru_ret, warp_calls, log>>
fp_vars == <<fp_self, res_blocks, fp_pc, fp_x, hidden_state, i, layer, fp_shape, fp_ret,
             fp_args>>
vars == <<cb_vars, bk_vars, gru_vars, fp_vars>>

\* ------------------------------------------------------------ tensors
None == [shape |-> <<>>, val |-> <<"None">>]

Raise(kind) == [shape |-> <<>>, val |-> <<"raise", kind>>]

IsRaise(v) == v.val[1] = "raise"

IsTensor(v) == v.val[1] \notin {"raise", "None"}

Tensor(shape, val) == [shape |-> shape, val |-> val]

Prod4(s) == s[1] * s[2] * s[3] * s[4]

\* torch.zeros(b, c, h, w)
Zeros(shape) == Tensor(shape, <<"zeros">>)

\* x[:, t]: the slice of axis 1 at index t
Select(a, k) ==
    Tensor(<<a.shape[1]>> \o SubSeq(a.shape, 3, Len(a.shape)), <<"select", a.val, k>>)

\* torch.cat([a, b], dim=1): every axis but the channel axis must agree
Cat(a, b) ==
    IF IsRaise(a) THEN a
    ELSE IF IsRaise(b) THEN b
    ELSE IF Len(a.shape) = 4 /\ Len(b.shape) = 4 /\ a.shape[1] = b.shape[1]
            /\ a.shape[3] = b.shape[3] /\ a.shape[4] = b.shape[4]
    THEN Tensor(<<a.shape[1], a.shape[2] + b.shape[2], a.shape[3], a.shape[4]>>,
                <<"cat", a.val, b.val>>)
    ELSE Raise("RuntimeError")

\* output size of a convolution along one spatial axis
ConvOut(n, k, stride, padding) == ((n + 2 * padding - k) \div stride) + 1

\* nn.Conv2d(cin, cout, k, stride, padding)(x)
Conv2d(a, cin, cout, k, stride, padding) ==
    IF IsRaise(a) THEN a
    ELSE IF Len(a.shape) = 4 /\ a.shape[2] = cin
            /\ a.shape[3] + 2 * padding >= k /\ a.shape[4] + 2 * padding >= k
    THEN Tensor(<<a.shape[1], cout, ConvOut(a.shape[3], k, stride, padding),
                  ConvOut(a.shape[4], k, stride, padding)>>,
                <<"conv", a.val>>)
    ELSE Raise("RuntimeError")

\* nn.BatchNorm2d(c)(x) of a module in training mode (the mode a module is
\* constructed in; nothing in the repository leaves it): needs more than one
\* value per channel
BatchNorm2d(a, c) ==
    IF IsRaise(a) THEN a
    ELSE IF Len(a.shape) # 4 \/ a.shape[2] # c THEN Raise("RuntimeError")
    ELSE IF a.shape[1] * a.shape[3] * a.shape[4] = 1 THEN Raise("ValueError")
    ELSE Tensor(a.shape, <<"bn", a.val>>)

\* nn.InstanceNorm2d(c)(x): normalises over each map's own pixels, and needs
\* more than one of them
InstanceNorm2d(a, c) ==
    IF IsRaise(a) THEN a
    ELSE IF Len(a.shape) # 4 THEN Raise("RuntimeError")
    ELSE IF a.shape[3] * a.shape[4] = 1 THEN Raise("ValueError")
    ELSE Tensor(a.shape, <<"in", a.val>>)

\* an elementwise activation
Activation(a, kind) == IF IsRaise(a) THEN a ELSE Tensor(a.shape, <<kind, a.val>>)

BroadcastDim(m, n) == IF m = 1 THEN n ELSE m

\* a + b or a * b, with broadcasting: each axis agrees or is 1 on one side
Elementwise(a, b) ==
    IF IsRaise(a) THEN a
    ELSE IF IsRaise(b) THEN b
    ELSE IF Len(a.shape) = Len(b.shape)
            /\ \A d \in 1..Len(a.shape) :
                 a.shape[d] = b.shape[d] \/ a.shape[d] = 1 \/ b.shape[d] = 1
    THEN Tensor([d \in 1..Len(a.shape) |-> BroadcastDim(a.shape[d], b.shape[d])],
                <<"add", a.val, b.val>>)
    ELSE Raise("RuntimeError")

\* ---------------------------------------------------------- ConvBlock
Norms == {"bn", "in", "none"}
Activations == {"relu", "lrelu", "elu", "tanh", "none"}

\* ConvBlock.__init__: the block, or the exception the constructor raises.
\* transpose=True reads the name `partial`, which the file never imports;
\* nn.Tanh takes no `inplace` argument.
ConvBlockInit(in_channels, out_channels, kernel_size, norm, activation, transpose) ==
    LET out == IF out_channels = 0 THEN in_channels ELSE out_channels
        padding == (kernel_size - 1) \div 2
    IN  IF transpose THEN Raise("NameError")
        ELSE IF norm \notin {"bn", "in", "none"} THEN Raise("ValueError")
        ELSE IF activation = "tanh" THEN Raise("TypeError")
        ELSE IF activation \notin {"relu", "lrelu", "elu", "none"} THEN Raise("ValueError")
        ELSE [shape |-> <<>>, val |-> <<"ConvBlock">>,
              in_channels |-> in_channels, out_channels |-> out,
              kernel_size |-> kernel_size, padding |-> padding,
              norm |-> norm, activation |-> activation]

\* ConvBlock.forward
ConvBlockForward(self, a) ==
    LET c == Conv2d(a, self.in_channels, self.out_channels, self.kernel_size, 1, self.padding)
        n == IF self.norm = "bn" THEN BatchNorm2d(c, self.out_channels)
             ELSE IF self.norm = "in" THEN InstanceNorm2d(c, self.out_channels)
             ELSE c
    IN  IF self.activation = "none" THEN n ELSE Activation(n, self.activation)

\* --------------------------------------------------------- SpatialGRU
\* SpatialGRU.__init__ with gru_bias_init = 0.0
SpatialGRUInit(id, input_size, hidden_size, norm, activation) ==
    LET conv_state_tilde ==
            ConvBlockInit(input_size + hidden_size, hidden_size, 3, norm, activation, FALSE)
    IN  IF IsRaise(conv_state_tilde) THEN conv_state_tilde
        ELSE [shape |-> <<>>, val |-> <<"SpatialGRU", id>>,
              input_size |-> input_size, hidden_size |-> hidden_size,
              conv_state_tilde |-> conv_state_tilde,
              \* the batch-norm buffer of conv_state_tilde.norm
              num_batches_tracked |-> 0]

\* warp_features(rnn_state, flow[:, t]) of utils: a resampled copy of the state
WarpFeatures(s, f) == Tensor(s.shape, <<"warp", s.val, f.val>>)

\* SpatialGRU.gru_cell, lines 101-111: the size of the new hidden state, or the
\* exception raised on the way to it
GruCellOutput(self, xt, s) ==
    LET cin == self.input_size + self.hidden_size
        x_and_state == Cat(xt, s)
        update_gate ==
            Activation(Conv2d(x_and_state, cin, self.hidden_size, 3, 1, 1), "sigmoid")
        reset_gate ==
            Activation(Conv2d(x_and_state, cin, self.hidden_size, 3, 1, 1), "sigmoid")
        state_tilde ==
            ConvBlockForward(self.conv_state_tilde, Cat(xt, Elementwise(reset_gate, s)))
    IN  Elementwise(Elementwise(update_gate, s), Elementwise(update_gate, state_tilde))

\* gru_cell as it would be if conv_state_tilde's norm normalised with its
\* running statistics: the contents then depend on the batches seen before
GruCell_RunningStats(self, xt, s) ==
    LET output == GruCellOutput(self, xt, s)
    IN  IF IsRaise(output) THEN output
        ELSE Tensor(output.shape, <<"gru_cell", self.val[2], xt.val, s.val,
                                    self.num_batches_tracked>>)

\* SpatialGRU.gru_cell: the new hidden state, a function of the module's
\* parameters, x and state, or the exception raised
GruCell(self, xt, s) ==
    LET output == GruCellOutput(self, xt, s)
    IN  IF IsRaise(output) THEN output
        ELSE Tensor(output.shape, <<"gru_cell", self.val[2], xt.val, s.val>>)

\* the tensor object passed as `state`, after gru_cell has run on it: gru_cell
\* builds new tensors and writes into none of its arguments
GruCellStateAfter(self, xt, s) == s

\* whether gru_cell gets as far as conv_state_tilde's batch norm, which counts
\* the batches it has seen before it normalises
GruCellReachesNorm(self, xt, s) ==
    LET cin == self.input_size + self.hidden_size
        reset_gate == Conv2d(Cat(xt, s), cin, self.hidden_size, 3, 1, 1)
        c == Conv2d(Cat(xt, Elementwise(reset_gate, s)), cin, self.hidden_size, 3, 1, 1)
    IN  self.conv_state_tilde.norm = "bn" /\ ~IsRaise(c)

\* the assertions as they would be without the one on the channel axis
ShapeChecksPass_RankOnly(self, xx) == Len(xx.shape) = 5

\* the two assertions at the top of forward
ShapeChecksPass(self, xx) == Len(xx.shape) = 5 /\ xx.shape[3] = self.input_size

\* rnn_state before the loop as it would be if `state` were ignored
InitialState_Zeros(self, xx, st) ==
    Zeros(<<xx.shape[1], self.hidden_size, xx.shape[4], xx.shape[5]>>)

\* rnn_state before the loop
InitialState(self, xx, st) ==
    IF st = None
    THEN Zeros(<<xx.shape[1], self.hidden_size, xx.shape[4], xx.shape[5]>>)
    ELSE st

\* the state that enters gru_cell as it would be if the initial state were
\* never warped
CarriedState_NotAtStepZero(rs, fl, tt) ==
    IF fl # None /\ tt > 0 THEN WarpFeatures(rs, Select(fl, tt)) ELSE rs

\* the state that enters gru_cell at step tt
CarriedState(rs, fl, tt) ==
    IF fl # None THEN WarpFeatures(rs, Select(fl, tt)) ELSE rs

\* torch.stack(rnn_output, dim=1)
Stack(seq) ==
    IF seq = <<>> THEN Raise("RuntimeError")
    ELSE Tensor(<<seq[1].shape[1], Len(seq)>> \o SubSeq(seq[1].shape, 2, 4),
                <<"stack", [k \in 1..Len(seq) |-> seq[k].val]>>)

\* a call self.forward(x, state, flow) of module k starts
GruEnter(k, xx, st, fl) ==
    /\ gru_pc' = "entry"
    /\ gru_self' = k
    /\ x' = xx
    /\ state' = st
    /\ flow' = fl
    /\ rnn_state' = None
    /\ rnn_output' = <<>>
    /\ t' = 0
    /\ gru_ret' = None
    /\ warp_calls' = 0

\* the call's frame is gone
GruLeave ==
    /\ gru_pc' = "idle"
    /\ gru_self' = 1
    /\ x' = None
    /\ state' = None
    /\ flow' = None
    /\ rnn_state' = None
    /\ rnn_output' = <<>>
    /\ t' = 0
    /\ gru_ret' = None
    /\ warp_calls' = 0

\* forward, lines 80-86: the assertions, then the initial hidden state
GruCheck ==
    /\ gru_pc = "entry"
    /\ IF ShapeChecksPass(spatial_grus[gru_self], x)
       THEN /\ gru_pc' = "loop"
            /\ rnn_state' = InitialState(spatial_grus[gru_self], x, state)
            /\ gru_ret' = gru_ret
       ELSE /\ gru_pc' = "raised"
            /\ rnn_state' = rnn_state
            /\ gru_ret' = Raise("AssertionError")
    /\ UNCHANGED <<spatial_grus, gru_self, x, state, flow, rnn_output, t, warp_calls, log>>
    /\ UNCHANGED <<cb_vars, bk_vars, fp_vars>>

\* forward, lines 87-94: one pass of the loop body
GruStep ==
    /\ gru_pc = "loop"
    /\ t < x.shape[2]
    /\ LET self == spatial_grus[gru_self]
           x_t == Select(x, t)
           carried == CarriedState(rnn_state, flow, t)
           new == GruCell(self, x_t, carried)
       IN  /\ warp_calls' = IF flow # None THEN warp_calls + 1 ELSE warp_calls
           /\ spatial_grus' =
                 IF GruCellReachesNorm(self, x_t, carried)
                 THEN [spatial_grus EXCEPT ![gru_self].num_batches_tracked = @ + 1]
                 ELSE spatial_grus
           /\ state' = IF t = 0 /\ flow = None /\ state # None
                       THEN GruCellStateAfter(self, x_t, carried)
                       ELSE state
           /\ IF IsRaise(new)
              THEN /\ gru_pc' = "raised"
                   /\ gru_ret' = new
                   /\ UNCHANGED <<rnn_state, rnn_output, t>>
              ELSE /\ rnn_state' = new
                   /\ rnn_output' = Append(rnn_output, new)
                   /\ t' = t + 1
                   /\ UNCHANGED <<gru_pc, gru_ret>>
    /\ log' = Append(log, <<"gru", gru_self - 1, t>>)
    /\ UNCHANGED <<gru_self, x, flow>>
    /\ UNCHANGED <<cb_vars, bk_vars, fp_vars>>

\* forward, line 97: the loop is over, the outputs are stacked and returned
GruStack ==
    /\ gru_pc = "loop"
    /\ t = x.shape[2]
    /\ gru_ret' = Stack(rnn_output)
    /\ gru_pc' = IF IsRaise(Stack(rnn_output)) THEN "raised" ELSE "returned"
    /\ UNCHANGED <<spatial_grus, gru_self, x, state, flow, rnn_state, rnn_output, t,
                   warp_calls, log>>
    /\ UNCHANGED <<cb_vars, bk_vars, fp_vars>>

\* --------------------------------------------------------- Bottleneck
\* nn.ConvTranspose2d(c, c, k, stride=2, padding=p, output_padding=p)(a)
ConvTranspose2d(a, cin, cout, k, padding) ==
    IF IsRaise(a) THEN a
    ELSE IF Len(a.shape) = 4 /\ a.shape[2] = cin /\ padding < 2
    THEN Tensor(<<a.shape[1], cout,
                  (a.shape[3] - 1) * 2 - 2 * padding + (k - 1) + padding + 1,
                  (a.shape[4] - 1) * 2 - 2 * padding + (k - 1) + padding + 1>>,
                <<"convT", a.val>>)
    ELSE Raise("RuntimeError")

\* Bottleneck.__init__ as it would be if the main convolution were not padded
BottleneckInit_NoPadding(id, in_channels, out_channels, kernel_size, dilation, upsample, downsample) ==
    IF dilation # 1 \/ (upsample /\ downsample) THEN Raise("AssertionError")
    ELSE IF (out_channels = 0 \/ out_channels = in_channels) /\ ~downsample /\ ~upsample
    THEN [shape |-> <<>>, val |-> <<"Bottleneck", id>>,
          in_channels |-> in_channels, out_channels |-> in_channels,
          bottleneck_channels |-> in_channels \div 2,
          kernel_size |-> kernel_size, padding_size |-> 0,
          upsample |-> upsample, downsample |-> downsample,
          projection |-> FALSE]
    ELSE Raise("TypeError")

\* Bottleneck.__init__: the block, or the exception the constructor raises.
\* Whenever a projection shortcut is asked for, line 209 calls list.append
\* with two arguments.
BottleneckInit(id, in_channels, out_channels, kernel_size, dilation, upsample, downsample) ==
    LET bottleneck_channels == in_channels \div 2
        out == IF out_channels = 0 THEN in_channels ELSE out_channels
        padding_size == ((kernel_size - 1) * dilation + 1) \div 2
    IN  IF dilation # 1 THEN Raise("AssertionError")
        ELSE IF upsample /\ downsample THEN Raise("AssertionError")
        ELSE IF out = in_channels /\ ~downsample /\ ~upsample
        THEN [shape |-> <<>>, val |-> <<"Bottleneck", id>>,
              in_channels |-> in_channels, out_channels |-> out,
              bottleneck_channels |-> bottleneck_channels,
              kernel_size |-> kernel_size, padding_size |-> padding_size,
              upsample |-> upsample, downsample |-> downsample,
              projection |-> FALSE]
        ELSE Raise("TypeError")

\* self.layers(a): the residual path
BottleneckLayers(self, a) ==
    LET bc == self.bottleneck_channels
        p1 == Activation(BatchNorm2d(Conv2d(a, self.in_channels, bc, 1, 1, 0), bc), "relu")
        c2 == IF self.upsample
              THEN ConvTranspose2d(p1, bc, bc, self.kernel_size, self.padding_size)
              ELSE Conv2d(p1, bc, bc, self.kernel_size,
                          IF self.downsample THEN 2 ELSE 1, self.padding_size)
        p2 == Activation(BatchNorm2d(c2, bc), "relu")
        p3 == Activation(BatchNorm2d(Conv2d(p2, bc, self.out_channels, 1, 1, 0),
                                     self.out_channels), "relu")
    IN  Activation(p3, "dropout")

\* nn.functional.pad(a, (0, w % 2, 0, h % 2), value=0)
PadOdd(a) ==
    Tensor(<<a.shape[1], a.shape[2], a.shape[3] + (a.shape[3] % 2),
             a.shape[4] + (a.shape[4] % 2)>>, <<"pad", a.val>>)

\* self.projection(a): the resampling, then the 1x1 convolution and its norm
Projection(self, a) ==
    LET r == IF self.upsample
             THEN Tensor(<<a.shape[1], a.shape[2], 2 * a.shape[3], 2 * a.shape[4]>>,
                         <<"interpolate", a.val>>)
             ELSE IF self.downsample
             THEN Tensor(<<a.shape[1], a.shape[2], a.shape[3] \div 2, a.shape[4] \div 2>>,
                         <<"maxpool", a.val>>)
             ELSE a
    IN  BatchNorm2d(Conv2d(r, self.in_channels, self.out_channels, 1, 1, 0),
                    self.out_channels)

\* Bottleneck.forward, given x_residual = self.layers(a)
BottleneckSum(self, a, residual) ==
    IF IsRaise(residual) THEN residual
    ELSE IF self.projection
    THEN Elementwise(residual, Projection(self, IF self.downsample THEN PadOdd(a) ELSE a))
    ELSE Elementwise(residual, a)

\* Bottleneck.forward: the contents are those the block computes from a
BottleneckForward(self, a) ==
    LET r == BottleneckSum(self, a, BottleneckLayers(self, a))
    IN  IF IsRaise(r) THEN r ELSE Tensor(r.shape, <<"bottleneck", self.val[2], a.val>>)

\* --------------------------------------------------- FuturePrediction
\* x.view(shape): the same contents under another size of as many elements
View(a, shape) ==
    IF IsRaise(a) THEN a
    ELSE IF Len(a.shape) = 4 /\ Len(shape) = 5
            /\ Prod4(a.shape) = shape[1] * Prod4(SubSeq(shape, 2, 5))
    THEN Tensor(shape, <<"view", a.val>>)
    ELSE IF Len(a.shape) = 5 /\ Len(shape) = 4
            /\ a.shape[1] * Prod4(SubSeq(a.shape, 2, 5)) = Prod4(shape)
    THEN Tensor(shape, <<"view", a.val>>)
    ELSE Raise("RuntimeError")

\* the SpatialGRUs as they would be if every stage took latent_dim channels
FuturePredictionGrus_AllLatent(in_channels, latent_dim, n_gru_blocks) ==
    [k \in 1..n_gru_blocks |-> SpatialGRUInit(k - 1, latent_dim, in_channels, "bn", "relu")]

\* FuturePrediction.__init__, lines 236-238: the SpatialGRU of each stage
FuturePredictionGrus(in_channels, latent_dim, n_gru_blocks) ==
    [k \in 1..n_gru_blocks |->
        SpatialGRUInit(k - 1, IF k - 1 = 0 THEN latent_dim ELSE in_channels, in_channels,
                       "bn", "relu")]

\* FuturePrediction.__init__, lines 239-240: the Bottleneck blocks of each stage
FuturePredictionResBlocks(in_channels, n_gru_blocks, n_res_layers) ==
    [k \in 1..n_gru_blocks |->
        [m \in 1..n_res_layers |->
            BottleneckInit(<<k - 1, m - 1>>, in_channels, 0, 3, 1, FALSE, FALSE)]]

\* the seed as it would be if the previous stage's last step were threaded on
StageSeed_Threaded(hidden, xx) ==
    IF xx.val[1] = "view" THEN Select(xx, xx.shape[2] - 1) ELSE hidden

\* the input as it would be if every stage read the call's own x
StageInput_FirstInput(xx, x0) == x0

\* the state stage i's SpatialGRU is seeded with (line 248)
StageSeed(hidden, xx) == hidden

\* the sequence stage i's SpatialGRU reads (line 248)
StageInput(xx, x0) == xx

\* forward is called with x of size xs and a current-state map of size hs
FPEnter(xs, hs) ==
    /\ fp_pc' = "stage"
    /\ fp_x' = Tensor(xs, <<"x">>)
    /\ hidden_state' = Tensor(hs, <<"hidden_state">>)
    /\ fp_args' = [x |-> Tensor(xs, <<"x">>), hidden_state |-> Tensor(hs, <<"hidden_state">>)]
    /\ i' = 0
    /\ layer' = 0
    /\ fp_shape' = <<>>
    /\ fp_ret' = None
    /\ log' = <<>>

\* forward, line 248: stage i calls its SpatialGRU
FPCallGru ==
    /\ fp_pc = "stage"
    /\ i < fp_self.n_gru_blocks
    /\ gru_pc = "idle"
    /\ GruEnter(i + 1, StageInput(fp_x, fp_args.x), StageSeed(hidden_state, fp_x), None)
    /\ fp_pc' = "in_gru"
    /\ UNCHANGED <<spatial_grus, log>>
    /\ UNCHANGED <<fp_self, res_blocks, fp_x, hidden_state, i, layer, fp_shape, fp_ret,
                   fp_args>>
    /\ UNCHANGED <<cb_vars, bk_vars>>

\* forward, lines 248-251: the SpatialGRU call is over; its sequence is
\* flattened to [b * n_future, c, h, w], or its exception leaves forward.
\* hidden_state is the object the call had as `state`.
FPGruDone ==
    /\ fp_pc = "in_gru"
    /\ gru_pc \in {"returned", "raised"}
    /\ hidden_state' = state
    /\ IF gru_pc = "raised"
       THEN /\ fp_pc' = "raised"
            /\ fp_ret' = gru_ret
            /\ UNCHANGED <<fp_x, fp_shape, layer>>
       ELSE /\ fp_pc' = "res"
            /\ fp_shape' = gru_ret.shape
            /\ fp_x' = View(gru_ret, <<gru_ret.shape[1] * gru_ret.shape[2]>>
                                     \o SubSeq(gru_ret.shape, 3, 5))
            /\ layer' = 0
            /\ fp_ret' = fp_ret
    /\ GruLeave
    /\ UNCHANGED <<spatial_grus, log, fp_self, res_blocks, i, fp_args>>
    /\ UNCHANGED <<cb_vars, bk_vars>>

\* forward, line 251: the next Bottleneck of res_blocks[i]
FPResBlock ==
    /\ fp_pc = "res"
    /\ layer < fp_self.n_res_layers
    /\ LET r == BottleneckForward(res_blocks[i + 1][layer + 1], fp_x)
       IN  IF IsRaise(r)
           THEN /\ fp_pc' = "raised"
                /\ fp_ret' = r
                /\ UNCHANGED <<fp_x, layer>>
           ELSE /\ fp_x' = r
                /\ layer' = layer + 1
                /\ UNCHANGED <<fp_pc, fp_ret>>
    /\ log' = Append(log, <<"res", i, layer>>)
    /\ UNCHANGED <<spatial_grus, gru_pc, gru_self, x, state, flow, rnn_state, rnn_output, t,
                   gru_ret, warp_calls>>
    /\ UNCHANGED <<fp_self, res_blocks, hidden_state, i, fp_shape, fp_args>>
    /\ UNCHANGED <<cb_vars, bk_vars>>

\* forward, line 252: back to [b, n_future, c, h, w], and on to the next stage
FPView ==
    /\ fp_pc = "res"
    /\ layer = fp_self.n_res_layers
    /\ LET r == View(fp_x, fp_shape)
       IN  IF IsRaise(r)
           THEN /\ fp_pc' = "raised"
                /\ fp_ret' = r
                /\ UNCHANGED <<fp_x, i>>
           ELSE /\ fp_x' = r
                /\ i' = i + 1
                /\ fp_pc' = "stage"
                /\ fp_ret' = fp_ret
    /\ UNCHANGED <<gru_vars, fp_self, res_blocks, hidden_state, layer, fp_shape, fp_args>>
    /\ UNCHANGED <<cb_vars, bk_vars>>

\* forward, line 253
FPReturn ==
    /\ fp_pc = "stage"
    /\ i = fp_self.n_gru_blocks
    /\ fp_pc' = "returned"
    /\ fp_ret' = fp_x
    /\ UNCHANGED <<gru_vars, fp_self, res_blocks, fp_x, hidden_state, i, layer, fp_shape,
                   fp_args>>
    /\ UNCHANGED <<cb_vars, bk_vars>>

\* ------------------------------------------------------------ callers
Shapes4 == {<<b, c, h, w>> : b \in 1..MaxB, c \in 1..MaxC, h \in 1..MaxH, w \in 1..MaxH}

Shapes5 ==
    {<<b, n, c, h, w>> : b \in 1..MaxB, n \in 0..MaxT, c \in 1..MaxC,
                         h \in 1..MaxH, w \in 1..MaxH}

\* sizes with an axis too few or too many
BadRankShapes == Shapes4 \cup {s \o <<1>> : s \in {r \in Shapes5 : r[2] = 1}}

\* the states a caller may pass with an input of size xs to a module of
\* hidden size hid: none, one of the right size, one with a channel too many,
\* one with a row too many
StateChoices(xs, hid) ==
    IF Len(xs) # 5 THEN {None}
    ELSE {None,
          Tensor(<<xs[1], hid, xs[4], xs[5]>>, <<"state">>),
          Tensor(<<xs[1], hid + 1, xs[4], xs[5]>>, <<"state">>),
          Tensor(<<xs[1], hid, xs[4] + 1, xs[5]>>, <<"state">>)}

FlowChoices(xs) ==
    {None,
     IF Len(xs) = 5 THEN Tensor(<<xs[1], xs[2], 2, xs[4], xs[5]>>, <<"flow">>)
     ELSE Tensor(<<1, 1, 2, 1, 1>>, <<"flow">>)}

CbIdle == cb_args = None /\ cb_self = None

BkIdle == bk_args = None /\ bk_self = None /\ bk_x = None /\ x_residual = None /\ bk_ret = None

GruIdle ==
    /\ gru_pc = "idle"
    /\ gru_self = 1
    /\ x = None
    /\ state = None
    /\ flow = None
    /\ rnn_state = None
    /\ rnn_output = <<>>
    /\ t = 0
    /\ gru_ret = None
    /\ warp_calls = 0
    /\ log = <<>>

FpIdle ==
    /\ fp_pc = "idle"
    /\ fp_x = None
    /\ hidden_state = None
    /\ i = 0
    /\ layer = 0
    /\ fp_shape = <<>>
    /\ fp_ret = None
    /\ fp_args = None

\* ---- a SpatialGRU and its callers
\* a caller invokes forward on the module; the batch counter bounds the run
Forward ==
    /\ gru_pc = "idle"
    /\ spatial_grus[1].num_batches_tracked + MaxT <= MaxTracked
    /\ \E xs \in Shapes5 \cup BadRankShapes :
         \E st \in StateChoices(xs, spatial_grus[1].hidden_size) :
           \E fl \in FlowChoices(xs) :
             GruEnter(1, Tensor(xs, <<"x">>), st, fl)
    /\ log' = <<>>
    /\ UNCHANGED <<spatial_grus, cb_vars, bk_vars, fp_vars>>

\* the caller has the result (or the exception)
Return ==
    /\ gru_pc \in {"returned", "raised"}
    /\ GruLeave
    /\ log' = <<>>
    /\ UNCHANGED <<spatial_grus, cb_vars, bk_vars, fp_vars>>

InitGRU ==
    /\ \E cin \in 1..MaxC, hid \in 1..MaxC, norm \in {"bn", "none"} :
         spatial_grus = <<SpatialGRUInit(0, cin, hid, norm, "relu")>>
    /\ GruIdle
    /\ CbIdle
    /\ BkIdle
    /\ FpIdle
    /\ fp_self = None
    /\ res_blocks = <<>>

NextGRU ==
    \/ Forward
    \/ GruCheck
    \/ GruStep
    \/ GruStack
    \/ Return

SpecGRU == InitGRU /\ [][NextGRU]_vars

\* ---- a FuturePrediction and its callers
FPForward ==
    /\ fp_pc = "idle"
    /\ \A k \in 1..Len(spatial_grus) :
         spatial_grus[k].num_batches_tracked + MaxT <= MaxTracked
    /\ \E xs \in Shapes5 :
         FPEnter(xs, <<xs[1], fp_self.in_channels, xs[4], xs[5]>>)
    /\ UNCHANGED <<spatial_grus, gru_pc, gru_self, x, state, flow, rnn_state, rnn_output, t,
                   gru_ret, warp_calls>>
    /\ UNCHANGED <<fp_self, res_blocks, cb_vars, bk_vars>>

\* the caller has the result (or the exception)
FPLeave ==
    /\ fp_pc \in {"returned", "raised"}
    /\ fp_pc' = "idle"
    /\ fp_x' = None
    /\ hidden_state' = None
    /\ i' = 0
    /\ layer' = 0
    /\ fp_shape' = <<>>
    /\ fp_ret' = None
    /\ fp_args' = None
    /\ IF gru_pc = "idle" THEN UNCHANGED gru_vars
       ELSE GruLeave /\ UNCHANGED <<spatial_grus, log>>
    /\ UNCHANGED <<fp_self, res_blocks, cb_vars, bk_vars>>

InitFP ==
    /\ \E in_channels \in 2..(MaxC + 1), latent_dim \in 1..MaxC,
          n_gru_blocks \in 0..MaxBlocks, n_res_layers \in 0..MaxRes :
         /\ fp_self = [in_channels |-> in_channels, latent_dim |-> latent_dim,
                       n_gru_blocks |-> n_gru_blocks, n_res_layers |-> n_res_layers]
         /\ spatial_grus = FuturePredictionGrus(in_channels, latent_dim, n_gru_blocks)
         /\ res_blocks = FuturePredictionResBlocks(in_channels, n_gru_blocks, n_res_layers)
    /\ GruIdle
    /\ CbIdle
    /\ BkIdle
    /\ FpIdle

NextFP ==
    \/ FPForward
    \/ FPCallGru
    \/ GruCheck
    \/ GruStep
    \/ GruStack
    \/ FPGruDone
    \/ FPResBlock
    \/ FPView
    \/ FPReturn
    \/ FPLeave

SpecFP == InitFP /\ [][NextFP]_vars

\* ---- ConvBlock and its callers
NormChoices == {"bn", "in", "none", "ln"}
ActivationChoices == {"relu", "lrelu", "elu", "tanh", "none", "gelu"}

\* ConvBlock(in_channels, out_channels, kernel_size, norm=..., activation=...,
\* transpose=...); out_channels = 0 stands for None
ConvBlockConstruct ==
    /\ cb_args = None
    /\ \E in_channels \in 1..MaxC, out_channels \in 0..MaxC, kernel_size \in 1..MaxK,
          norm \in NormChoices, activation \in ActivationChoices, transpose \in BOOLEAN :
         /\ cb_args' = [in_channels |-> in_channels, out_channels |-> out_channels,
                        kernel_size |-> kernel_size, norm |-> norm,
                        activation |-> activation, transpose |-> transpose]
         /\ cb_self' = ConvBlockInit(in_channels, out_channels, kernel_size, norm,
                                     activation, transpose)
    /\ UNCHANGED <<bk_vars, gru_vars, fp_vars>>

InitConvBlock ==
    /\ CbIdle
    /\ BkIdle
    /\ GruIdle
    /\ FpIdle
    /\ spatial_grus = <<>>
    /\ fp_self = None
    /\ res_blocks = <<>>

NextConvBlock == ConvBlockConstruct

SpecConvBlock == InitConvBlock /\ [][NextConvBlock]_vars

\* ---- Bottleneck and its callers
BottleneckShapes ==
    {<<b, c, h, w>> : b \in 1..MaxB, c \in 2..(MaxC + 1), h \in 1..(MaxH + 1),
                      w \in 1..(MaxH + 1)}

\* Bottleneck(in_channels, out_channels, kernel_size, dilation, upsample=...,
\* downsample=...); out_channels = 0 stands for None
BottleneckConstruct ==
    /\ bk_args = None
    /\ \E in_channels \in 2..(MaxC + 1), out_channels \in {0} \cup (2..(MaxC + 1)),
          kernel_size \in 1..MaxK, dilation \in 1..2, upsample \in BOOLEAN,
          downsample \in BOOLEAN :
         /\ bk_args' = [in_channels |-> in_channels, out_channels |-> out_channels,
                        kernel_size |-> kernel_size, dilation |-> dilation,
                        upsample |-> upsample, downsample |-> downsample]
         /\ bk_self' = BottleneckInit(<<0, 0>>, in_channels, out_channels, kernel_size,
                                      dilation, upsample, downsample)
    /\ bk_x' = None
    /\ x_residual' = None
    /\ bk_ret' = None
    /\ UNCHANGED <<cb_vars, gru_vars, fp_vars>>

\* Bottleneck.forward on the block constructed last
BottleneckCall ==
    /\ bk_self # None
    /\ ~IsRaise(bk_self)
    /\ \E xs \in BottleneckShapes :
         /\ bk_x' = Tensor(xs, <<"x">>)
         /\ x_residual' = BottleneckLayers(bk_self, Tensor(xs, <<"x">>))
         /\ bk_ret' = BottleneckForward(bk_self, Tensor(xs, <<"x">>))
    /\ UNCHANGED <<bk_args, bk_self, cb_vars, gru_vars, fp_vars>>

InitBottleneck ==
    /\ CbIdle
    /\ BkIdle
    /\ GruIdle
    /\ FpIdle
    /\ spatial_grus = <<>>
    /\ fp_self = None
    /\ res_blocks = <<>>

NextBottleneck ==
    \/ BottleneckConstruct
    \/ BottleneckCall

SpecBottleneck == InitBottleneck /\ [][NextBottleneck]_vars

\* =========================================================== claims
\* ---- SpatialGRU.forward (SpecGRU)
\* entry k (from 0) of the sequence a call returned
Entry(k) ==
    Tensor(<<gru_ret.shape[1]>> \o SubSeq(gru_ret.shape, 3, 5), gru_ret.val[2][k + 1])

\* the state carried into step k: the supplied initial state (zeros when none
\* was supplied) for k = 0, entry k - 1 after that
Carried(k) ==
    IF k > 0 THEN Entry(k - 1)
    ELSE IF state # None THEN state
    ELSE Zeros(<<x.shape[1], spatial_grus[gru_self].hidden_size, x.shape[4], x.shape[5]>>)

\* C1 as stated: the sequence a call returns has as many entries as x has time
\* steps, and entry k is gru_cell(x[:, k], carried state), the carried state
\* being the initial state for k = 0 and entry k - 1 for k > 0.
C1_EntriesFromCarriedState ==
    gru_pc = "returned" =>
        /\ gru_ret.shape[2] = x.shape[2]
        /\ Len(gru_ret.val[2]) = x.shape[2]
        /\ \A k \in 0..(x.shape[2] - 1) :
             Entry(k) = GruCell(spatial_grus[gru_self], Select(x, k), Carried(k))

\* C1 amended: the sequence a call returns has as many entries as x has time
\* steps, and entry k is gru_cell(x[:, k], c), where c is the carried state
\* (the initial state for k = 0, entry k - 1 for k > 0), replaced by its warp
\* under flow[:, k] when a flow was supplied.
C1_EntriesFromWarpedCarriedState ==
    gru_pc = "returned" =>
        /\ gru_ret.shape[2] = x.shape[2]
        /\ Len(gru_ret.val[2]) = x.shape[2]
        /\ \A k \in 0..(x.shape[2] - 1) :
             Entry(k) = GruCell(spatial_grus[gru_self], Select(x, k),
                                IF flow # None
                                THEN WarpFeatures(Carried(k), Select(flow, k))
                                ELSE Carried(k))

\* a call with an initial state and a flow has returned two entries
C1_Witness ==
    /\ gru_pc = "returned"
    /\ state # None
    /\ flow # None
    /\ gru_ret.shape[2] = 2
    /\ x.shape[2] = 2

\* C6: a call whose x has not exactly 5 axes, or whose channel axis is not
\* input_size, only ever raises AssertionError: it executes no step, creates no
\* hidden state, produces no entry, calls no warp and returns nothing.
C6_BadShapeFailsAtStart ==
    (gru_pc # "idle"
     /\ (Len(x.shape) # 5 \/ x.shape[3] # spatial_grus[gru_self].input_size)) =>
        /\ gru_pc \in {"entry", "raised"}
        /\ gru_pc = "raised" => gru_ret = Raise("AssertionError")
        /\ gru_pc = "entry" => gru_ret = None
        /\ rnn_state = None
        /\ rnn_output = <<>>
        /\ t = 0
        /\ warp_calls = 0
        /\ log = <<>>

\* a call with five axes and the wrong channel count has raised
C6_Witness ==
    /\ gru_pc = "raised"
    /\ gru_ret = Raise("AssertionError")
    /\ Len(x.shape) = 5
    /\ x.shape[3] # spatial_grus[gru_self].input_size
    /\ x.shape[2] > 0

RECURSIVE RefHidden(_, _, _, _)
\* the hidden state after k steps, from the arguments and the module's
\* parameters alone
RefHidden(params, xx, st, k) ==
    IF k = 0
    THEN (IF st = None
          THEN Zeros(<<xx.shape[1], params.hidden_size, xx.shape[4], xx.shape[5]>>)
          ELSE st)
    ELSE GruCell(params, Select(xx, k - 1), RefHidden(params, xx, st, k - 1))

\* what forward computes from its arguments and the module's parameters alone
RefForward(params, xx, st) ==
    Tensor(<<xx.shape[1], xx.shape[2], params.hidden_size, xx.shape[4], xx.shape[5]>>,
           <<"stack", [k \in 1..xx.shape[2] |-> RefHidden(params, xx, st, k).val]>>)

\* C8: whatever calls came before (they leave their count in the module's norm
\* buffer), what a call without a flow returns is a function of its x, its
\* state and the module's parameters, so two such calls with the same
\* arguments return the same.
C8_OutputFromArgumentsAlone ==
    (gru_pc = "returned" /\ flow = None) =>
        gru_ret = RefForward([spatial_grus[gru_self] EXCEPT !.num_batches_tracked = 0],
                             x, state)

\* a call without a flow has returned on a module that earlier calls have used
C8_Witness ==
    /\ gru_pc = "returned"
    /\ flow = None
    /\ spatial_grus[gru_self].conv_state_tilde.norm = "bn"
    /\ spatial_grus[gru_self].num_batches_tracked > x.shape[2]

\* C9: a step of a call with a flow calls warp_features once, on the carried
\* state and flow[:, t], and gru_cell gets the warped state, at step 0 as at
\* every later step; a step of a call without a flow calls no warp and gru_cell
\* gets the carried state itself.
C9_WarpBeforeGate ==
    [][(gru_pc = "loop" /\ t' = t + 1) =>
         /\ flow # None =>
              /\ warp_calls' = warp_calls + 1
              /\ rnn_state' = GruCell(spatial_grus[gru_self], Select(x, t),
                                      WarpFeatures(rnn_state, Select(flow, t)))
         /\ flow = None =>
              /\ warp_calls' = 0
              /\ rnn_state' = GruCell(spatial_grus[gru_self], Select(x, t), rnn_state)]_vars

\* step 0 of a call with a flow and an initial state is over: the first entry
\* is gru_cell of the warped initial state
C9_Witness ==
    /\ gru_pc = "loop"
    /\ flow # None
    /\ state # None
    /\ t = 1
    /\ warp_calls = 1
    /\ rnn_output[1].val[4] = <<"warp", state.val, <<"select", flow.val, 0>>>>

\* ---- FuturePrediction.forward (SpecFP)
\* the call's x is [B, T, latent_dim, H, W]; its hidden_state is
\* [B, in_channels, H, W] in every call
ValidCall == fp_args.x.shape[3] = fp_self.latent_dim

\* the call's x has a time step, and its maps hold more than one value per
\* channel
NonDegenerateCall ==
    /\ fp_args.x.shape[2] >= 1
    /\ fp_args.x.shape[1] * fp_args.x.shape[4] * fp_args.x.shape[5] > 1

\* C2: throughout a call, hidden_state is the map the caller supplied; every
\* stage's SpatialGRU gets it as its state and starts step 0 with it.
C2_EveryStageSeededWithHiddenState ==
    fp_pc # "idle" =>
        /\ hidden_state = fp_args.hidden_state
        /\ gru_pc # "idle" => state = fp_args.hidden_state
        /\ (gru_pc = "loop" /\ t = 0) => rnn_state = fp_args.hidden_state

\* stage 1 is about to run step 0, on the refined sequence of stage 0
C2_Witness ==
    /\ fp_pc = "in_gru"
    /\ i = 1
    /\ gru_pc = "loop"
    /\ t = 0
    /\ x.val[1] = "view"
    /\ rnn_state = fp_args.hidden_state

\* the size the spec gives the result
ResultShape ==
    <<fp_args.x.shape[1], fp_args.x.shape[2], fp_self.in_channels,
      fp_args.x.shape[4], fp_args.x.shape[5]>>

\* C3 as stated: for every configuration, a call with x of [B,T,latent_dim,H,W]
\* and hidden_state of [B,in_channels,H,W] ends by returning a sequence of
\* [B,T,in_channels,H,W].
C3_ReturnsResultShape ==
    (fp_pc \in {"returned", "raised"} /\ ValidCall) =>
        /\ fp_pc = "returned"
        /\ fp_ret.shape = ResultShape

\* C3 amended: so it is for every configuration with at least one stage and
\* every x with at least one time step and more than one value per channel.
C3_ReturnsResultShapeIfStagesAndSteps ==
    (fp_pc \in {"returned", "raised"} /\ ValidCall /\ NonDegenerateCall
     /\ fp_self.n_gru_blocks >= 1) =>
        /\ fp_pc = "returned"
        /\ fp_ret.shape = ResultShape

\* a call of two stages on a sequence of two steps, latent_dim # in_channels,
\* has returned
C3_Witness ==
    /\ fp_pc = "returned"
    /\ fp_self.n_gru_blocks = 2
    /\ fp_self.latent_dim # fp_self.in_channels
    /\ fp_args.x.shape[2] = 2
    /\ fp_ret.shape = ResultShape

\* the steps and blocks of stage k, in order
StageLog(k, steps, blocks) ==
    [m \in 1..steps |-> <<"gru", k, m - 1>>] \o [m \in 1..blocks |-> <<"res", k, m - 1>>]

RECURSIVE ExpectedLog(_, _, _)
\* the steps and blocks of stages 0 .. n - 1, in order
ExpectedLog(n, steps, blocks) ==
    IF n = 0 THEN <<>>
    ELSE ExpectedLog(n - 1, steps, blocks) \o StageLog(n - 1, steps, blocks)

IsPrefix(a, b) == Len(a) <= Len(b) /\ SubSeq(b, 1, Len(a)) = a

RECURSIVE RefBlocks(_, _, _)
\* blocks 0 .. m - 1 of res_blocks[k] applied in turn
RefBlocks(k, m, a) ==
    IF m = 0 THEN a ELSE BottleneckForward(res_blocks[k + 1][m], RefBlocks(k, m - 1, a))

RECURSIVE RefStages(_)
\* what the call's x has become after stages 0 .. n - 1
RefStages(n) ==
    IF n = 0 THEN fp_args.x
    ELSE LET seq == RefForward(spatial_grus[n], RefStages(n - 1), fp_args.hidden_state)
             flat == <<seq.shape[1] * seq.shape[2]>> \o SubSeq(seq.shape, 3, 5)
         IN  View(RefBlocks(n - 1, fp_self.n_res_layers, View(seq, flat)), seq.shape)

\* the log of a whole call
CallLog == ExpectedLog(fp_self.n_gru_blocks, fp_args.x.shape[2], fp_self.n_res_layers)

C4_DownsampleConstructs ==
    (bk_args # None /\ bk_args.downsample /\ ~bk_args.upsample /\ bk_args.dilation = 1) =>
        ~IsRaise(bk_self)

\* forward ran on a block with C_in = C_out and no resampling, on maps with
\* the block's channel count
IdentityShortcutCall ==
    /\ bk_ret # None
    /\ bk_args.out_channels \in {0, bk_args.in_channels}
    /\ ~bk_args.upsample
    /\ ~bk_args.downsample
    /\ bk_x.shape[2] = bk_args.in_channels

SameSpatialSize(a, b) == a.shape[3] = b.shape[3] /\ a.shape[4] = b.shape[4]

\* C7 as stated: whatever the kernel size, the residual path's output has the
\* input's spatial size, so the sum with the identity shortcut is well formed
\* and has the input's spatial size.
C7_ResidualKeepsSpatialSize ==
    (IdentityShortcutCall /\ IsTensor(x_residual)) =>
        /\ SameSpatialSize(x_residual, bk_x)
        /\ IsTensor(bk_ret)
        /\ SameSpatialSize(bk_ret, bk_x)

\* C7 amended: for an odd kernel size and maps with more than one value per
\* channel, the residual path's output has the input's spatial size, the sum
\* with the identity shortcut is well formed and has the input's spatial size.
C7_ResidualKeepsSpatialSizeIfOddKernel ==
    (IdentityShortcutCall /\ bk_args.kernel_size % 2 = 1
     /\ bk_x.shape[1] * bk_x.shape[3] * bk_x.shape[4] > 1) =>
        /\ IsTensor(x_residual)
        /\ SameSpatialSize(x_residual, bk_x)
        /\ IsTensor(bk_ret)
        /\ SameSpatialSize(bk_ret, bk_x)

\* forward of a block with a 3x3 kernel has returned for maps of 3 x 2
C7_Witness ==
    /\ IdentityShortcutCall
    /\ bk_args.kernel_size = 3
    /\ bk_x.shape[3] = 3
    /\ bk_x.shape[4] = 2
    /\ IsTensor(bk_ret)
    /\ bk_ret.shape = bk_x.shape

\* ---- ConvBlock (SpecConvBlock)
\* C5: construction succeeds for every norm of {bn, in, none} with every
\* activation of {relu, lrelu, elu, tanh, none}, and raises ValueError for any
\* other selector.
C5_SelectorsDecideConstruction ==
    (cb_args # None /\ ~cb_args.transpose) =>
        IF cb_args.norm \in Norms /\ cb_args.activation \in Activations
        THEN ~IsRaise(cb_self)
        ELSE cb_self = Raise("ValueError")

====
